---- MODULE Spec2Model ----
(***************************************************************************)
(* nu_plugin_mssql: the connection pool (data/connection_pool.rs), the     *)
(* connection handle (data/mssql_client.rs), and the streaming pipeline    *)
(* between the query producer task and the TableIterator consumer          *)
(* (commands/query.rs, db.rs, data/db.rs), and the marshaller of cells     *)
(* (data/db.rs).                                                           *)
(*                                                                         *)
(* Seven specifications share the variables:                               *)
(*   SpecPool   - callers doing ConnectionPool::get, then on a miss        *)
(*                ConnectionPool::create_connection;                       *)
(*   SpecClose  - the same callers, who then run queries on the pooled     *)
(*                connection and whose custom value the host drops:        *)
(*                custom_value_dropped and ConnectionPool::close;          *)
(*   SpecConfig - config_from_args and get_auth_method on every            *)
(*                ConnectionArgs;                                          *)
(*   SpecStream - successive `mssql query` calls: Query::run, the spawned  *)
(*                producer task, the consumer driving TableIterator::next; *)
(*   SpecHandle - MssqlClient handles sharing one Arc<Client> and calling  *)
(*                MssqlClient::run_query;                                  *)
(*   SpecValue  - the serialized form and the base value of MssqlClient    *)
(*                handles made with different passwords;                   *)
(*   SpecMarshal - parse_value on every kind of cell.                      *)
(***************************************************************************)
EXTENDS Integers, Sequences, FiniteSets, TLC

(***************************************************************************)
(* Bounds of the model.                                                    *)
(***************************************************************************)
NumCallers == 2
MaxRows == 3
MaxBuf == 2
MaxCalls == 2
MaxHandles == 3
MaxNones == 2
MaxCellVal == 2

(***************************************************************************)
(* Program constants.                                                      *)
(***************************************************************************)
LOGIN_FAILED_CODE == 18456
DEFAULT_BUFFER_SIZE == 10

(***************************************************************************)
(* Option<Value>: a nu Value::String with its span, or None; Option<Span>. *)
(***************************************************************************)
None == [some |-> FALSE, val |-> "", span |-> 0]
Some(v, s) == [some |-> TRUE, val |-> v, span |-> s]
NoSpan == [some |-> FALSE, span |-> 0]
SomeSpan(s) == [some |-> TRUE, span |-> s]

\* ConnectionArgs as built by ConnectionArgs::from_call: every named flag
\* that was given, the span of --trust-cert, the row-buffer size.  The same
\* user name typed at two places of the source has two spans.
ConnectionArgs ==
    [server : {None, Some("db1", 7)},
     instance : {None, Some("inst", 8)},
     database : {None, Some("app", 9)},
     user : {None, Some("alice", 1), Some("alice", 3)},
     password : {None, Some("p", 2), Some("q", 2)},
     trust_cert : {NoSpan, SomeSpan(5), SomeSpan(6)},
     buffer_size : 1..MaxBuf]

\* Option<Value> == Option<Value>: nu's Value compares the values, not the
\* spans.
ValueEq(a, b) == a.some = b.some /\ a.val = b.val

\* impl PartialEq for ConnectionArgs
eq(a, b) ==
    /\ ValueEq(a.server, b.server)
    /\ ValueEq(a.instance, b.instance)
    /\ ValueEq(a.database, b.database)
    /\ ValueEq(a.user, b.user)
    /\ ValueEq(a.password, b.password)
    /\ a.trust_cert = b.trust_cert
    /\ a.buffer_size = b.buffer_size

\* Value::to_debug_string: the Debug rendering, which prints value and span.
to_debug_string(v) == <<v.val, v.span>>

\* What `if let Some(field) = ... { field.to_debug_string().hash(state) }`
\* feeds to the hasher.
HashField(v) == IF v.some THEN <<to_debug_string(v)>> ELSE <<>>

\* impl Hash for ConnectionArgs: the sequence fed to the hasher.
hash(a) ==
    HashField(a.server) \o HashField(a.instance) \o HashField(a.database)
    \o HashField(a.user) \o HashField(a.password)
    \o <<a.trust_cert.some, a.buffer_size>>

\* A HashMap lookup with key b finds the entry stored under key a.
KeyMatch(a, b) == hash(a) = hash(b) /\ eq(a, b)

\* Option<Value> holding a Value::Int.
NoInt == [some |-> FALSE, val |-> 0]
SomeInt(n) == [some |-> TRUE, val |-> n]

\* call.named of the `mssql query` calls: the flags given, by name.  The
\* signature of the command declares `row-buffer`; `buffer_size` is the
\* name QueryArgs::from_call looks for.
QueryCalls ==
    [user : {None, Some("alice", 1)},
     password : {None, Some("p", 2)},
     row_buffer : {NoInt} \cup {SomeInt(n) : n \in 1..MaxBuf},
     buffer_size : {NoInt} \cup {SomeInt(n) : n \in 1..MaxBuf}]

\* QueryArgs::from_call: the defaults, then one assignment per named flag
\* whose name the match knows.
from_call(call) ==
    [server |-> None, instance |-> None, database |-> None,
     user |-> call.user, password |-> call.password, trust_cert |-> NoSpan,
     buffer_size |-> IF call.buffer_size.some THEN call.buffer_size.val
                     ELSE DEFAULT_BUFFER_SIZE]

\* The arguments of the `mssql query` calls.
QueryArgs == {from_call(call) : call \in QueryCalls}

VARIABLES
    target_os,      \* cfg(target_os) of the build: "windows" or "linux"
    connections,    \* ConnectionPool.connections: ConnectionArgs -> Connection
    gc_disabled,    \* what the host was last told by set_gc_disabled
    sessions,       \* server side: the args of every session ever established
    cpc,            \* pool caller -> position in get / create_connection
    cargs,          \* pool caller -> its ConnectionArgs
    cconn,          \* pool caller -> the local `connection` of create_connection
    cresult,        \* pool caller -> what the call returned
    pool_lock,      \* holder of the pool mutex: a caller, or 0 when free
    to_close,       \* ConnectionPool::close: keys its loop has yet to visit
    close_count,    \* session -> close requests made by the running close()
    closed,         \* sessions whose transport has been closed
    close_failed,   \* keys whose close request failed in the running close()
    in_flight,      \* sessions whose client mutex a running query holds
    cconfig,        \* pool caller -> what config_from_args returned
    cnet,           \* pool caller -> what the network and the host answered its call,
                    \* and the increment flag of its get when get found the key
    qcall,          \* the named flags of the `mssql query` calls
    qargs,          \* QueryArgs of the `mssql query` calls
    calls,          \* number of Query::run calls made so far
    qresult,        \* what the last Query::run returned: "iterator" or "error"
    qsource,        \* args.source of the last Query::run
    ppc,            \* producer task position
    perr,           \* the ConnectionError handed to handle_err
    served,         \* items the server's row stream has yielded in this call
    pending,        \* the record the producer is sending
    chan,           \* the bounded channel's queue
    sender_alive,   \* the Sender has not been dropped
    receiver_alive, \* the Receiver has not been dropped
    received,       \* values TableIterator::next has returned in this call
    cons,           \* consumer: "idle", "running", "ended", "dropped"
    nones,          \* how many times next() has returned None in this call
    hsess,          \* handle -> session id its Arc<Client> points to (0: none)
    hpc,            \* handle -> position in MssqlClient::run_query
    strong,         \* session id -> Arc strong count
    hpw,            \* handle -> the password field of its args
    hbase,          \* the base values to_base_value has returned for the handles
    cell,           \* the ColumnData handed to parse_value
    parsed          \* what parse_value returned for it

poolVars == <<connections, gc_disabled, cpc, cargs, cconn, cresult, pool_lock, to_close,
              close_count, close_failed, closed, in_flight, cconfig, cnet>>
closeVars == <<pool_lock, to_close, close_count, close_failed, closed, in_flight>>
streamVars == <<qcall, qargs, calls, qresult, qsource, ppc, perr, served, pending, chan, sender_alive,
                receiver_alive, received, cons, nones>>
handleVars == <<hsess, hpc, strong, hpw, hbase>>
marshalVars == <<cell, parsed>>
vars == <<target_os, sessions, poolVars, streamVars, handleVars, marshalVars>>

Callers == 1..NumCallers
Handles == 1..MaxHandles
TargetOs == {"windows", "linux"}

(***************************************************************************)
(* tiberius::AuthMethod and ConnectionError, as plain records.             *)
(***************************************************************************)
NoAuth == [kind |-> "", user |-> "", password |-> ""]
AuthSqlServer(u, p) == [kind |-> "SqlServer", user |-> u, password |-> p]
AuthIntegrated == [kind |-> "Integrated", user |-> "", password |-> ""]
AuthNone == [kind |-> "None", user |-> "", password |-> ""]

NoError == [kind |-> "", span |-> 0, auth |-> NoAuth]
UserWithoutPassword(span) == [kind |-> "UserWithoutPassword", span |-> span, auth |-> NoAuth]
LoginFailed(auth) == [kind |-> "LoginFailed", span |-> 0, auth |-> auth]
SetupError == [kind |-> "SetupError", span |-> 0, auth |-> NoAuth]
ConnectionError == [kind |-> "ConnectionError", span |-> 0, auth |-> NoAuth]

\* get_auth_method: the match on (user, password), arm by arm.
get_auth_methodNoDefaultUser(args, os) ==
    IF args.user.some /\ args.password.some
    THEN [ok |-> TRUE, auth |-> AuthSqlServer(args.user.val, args.password.val), err |-> NoError]
    ELSE IF args.password.some
    THEN [ok |-> TRUE, auth |-> AuthSqlServer("", args.password.val), err |-> NoError]
    ELSE IF args.user.some
    THEN [ok |-> FALSE, auth |-> NoAuth, err |-> UserWithoutPassword(args.user.span)]
    ELSE IF os = "windows"
    THEN [ok |-> TRUE, auth |-> AuthIntegrated, err |-> NoError]
    ELSE [ok |-> TRUE, auth |-> AuthNone, err |-> NoError]
get_auth_method(args, os) ==
    IF args.user.some /\ args.password.some
    THEN [ok |-> TRUE, auth |-> AuthSqlServer(args.user.val, args.password.val), err |-> NoError]
    ELSE IF args.password.some
    THEN [ok |-> TRUE, auth |-> AuthSqlServer("sa", args.password.val), err |-> NoError]
    ELSE IF args.user.some
    THEN [ok |-> FALSE, auth |-> NoAuth, err |-> UserWithoutPassword(args.user.span)]
    ELSE IF os = "windows"
    THEN [ok |-> TRUE, auth |-> AuthIntegrated, err |-> NoError]
    ELSE [ok |-> TRUE, auth |-> AuthNone, err |-> NoError]

\* The tiberius Config that config_from_args fills in.
NoConfig ==
    [ok |-> FALSE, host |-> "", database |-> "", instance |-> "", port |-> 0,
     auth |-> NoAuth, trust_cert |-> FALSE, err |-> NoError]

\* config_from_args: host, database and instance-or-port from the arguments
\* or their defaults, then the authentication method, whose failure is the
\* only failure, then the trust-cert flag.
config_from_argsIgnoreErr(args, os) ==
    LET auth == get_auth_method(args, os) IN
    [ok |-> TRUE,
     host |-> IF args.server.some THEN args.server.val ELSE "localhost",
     database |-> IF args.database.some THEN args.database.val ELSE "master",
     instance |-> IF args.instance.some THEN args.instance.val ELSE "",
     port |-> IF args.instance.some THEN 0 ELSE 1433,
     auth |-> auth.auth,
     trust_cert |-> args.trust_cert.some,
     err |-> NoError]
config_from_args(args, os) ==
    LET auth == get_auth_method(args, os) IN
    IF ~auth.ok
    THEN [NoConfig EXCEPT !.err = auth.err]
    ELSE [ok |-> TRUE,
          host |-> IF args.server.some THEN args.server.val ELSE "localhost",
          database |-> IF args.database.some THEN args.database.val ELSE "master",
          instance |-> IF args.instance.some THEN args.instance.val ELSE "",
          port |-> IF args.instance.some THEN 0 ELSE 1433,
          auth |-> auth.auth,
          trust_cert |-> args.trust_cert.some,
          err |-> NoError]

(***************************************************************************)
(* What the network and the server can answer.                             *)
(***************************************************************************)
\* create_stream: the TCP connect succeeds or fails.
StreamOutcomes == {"ok", "io_error"}
\* Client::connect: the handshake succeeds, the server answers with an error
\* code, or the handshake fails without a server error.
ConnectOutcomes ==
    {[t |-> "ok", code |-> 0],
     [t |-> "server", code |-> LOGIN_FAILED_CODE],
     [t |-> "server", code |-> 4060],
     [t |-> "protocol", code |-> 0]}

\* What the transport, the server and the host have answered to one call of
\* create_connection.
NoOutcome == [t |-> "none", code |-> 0]
NoAnswers == [stream |-> "none", connect |-> NoOutcome, gc |-> "none", increment |-> "none"]

\* The match on Client::connect's result: which ConnectionError a failed
\* handshake becomes.
connect_error(args, os, outcome) ==
    IF outcome.t = "server" /\ outcome.code = LOGIN_FAILED_CODE
    THEN LoginFailed(get_auth_method(args, os).auth)
    ELSE ConnectionError

(***************************************************************************)
(* Connection: one established session and its reference count.            *)
(***************************************************************************)
NoConnection == [session |-> 0, reference_count |-> 0]
ConnectionNew(s) == [session |-> s, reference_count |-> 0]

Pending == [status |-> "pending", conn |-> NoConnection, err |-> NoError]
Ok(conn) == [status |-> "ok", conn |-> conn, err |-> NoError]
Err(e) == [status |-> "err", conn |-> NoConnection, err |-> e]

\* ConnectionError::to_shell_error: the ShellError create_connection returns
\* for a ConnectionError; it carries the error kind and what the kind holds.
to_shell_error(error, args) == error

\* HashMap lookups: whether a stored key matches, and which one.
HasKey(map, key) == \E k \in DOMAIN map : KeyMatch(k, key)
KeyOf(map, key) == CHOOSE k \in DOMAIN map : KeyMatch(k, key)

\* HashMap::insert: the value stored under the key afterwards; a matching
\* stored key is kept and its value replaced.
MapInsert(map, key, value) ==
    IF HasKey(map, key)
    THEN [map EXCEPT ![KeyOf(map, key)] = value]
    ELSE [k \in DOMAIN map \cup {key} |-> IF k = key THEN value ELSE map[k]]

(***************************************************************************)
(* ConnectionPool::get                                                     *)
(***************************************************************************)
\* A get that raises the count whatever its increment flag says.
GetMapAlwaysIncrement(map, args, increment) ==
    IF HasKey(map, args)
    THEN [map EXCEPT ![KeyOf(map, args)].reference_count = @ + 1]
    ELSE map

\* The map after get: a hit with increment raises the entry's count.
GetMap(map, args, increment) ==
    IF HasKey(map, args) /\ increment
    THEN [map EXCEPT ![KeyOf(map, args)].reference_count = @ + 1]
    ELSE map

\* What get returns on a hit: a clone of the entry after the increment.
GetReturn(map, args) == map[KeyOf(map, args)]

\* The mutex is taken and released within the call.
Get(c) ==
    /\ cpc[c] = "get"
    /\ pool_lock = 0
    /\ \E increment \in BOOLEAN :
        /\ connections' = GetMap(connections, cargs[c], increment)
        /\ IF HasKey(connections, cargs[c])
           THEN /\ cresult' = [cresult EXCEPT ![c] = Ok(GetReturn(connections', cargs[c]))]
                /\ cpc' = [cpc EXCEPT ![c] = "done"]
                /\ cnet' = [cnet EXCEPT ![c].increment =
                                IF increment THEN "true" ELSE "false"]
           ELSE /\ cresult' = cresult
                /\ cpc' = [cpc EXCEPT ![c] = "create_stream"]
                /\ cnet' = cnet
    /\ UNCHANGED <<target_os, sessions, gc_disabled, cargs, cconn, closeVars, cconfig,
                   streamVars, handleVars, marshalVars>>

(***************************************************************************)
(* ConnectionPool::create_connection                                       *)
(***************************************************************************)
\* `create_stream(...).await.map_err(SetupError)?`: what the call has as its
\* result after the transport answered.
stream_resultAsConnectionError(result, args, outcome) ==
    IF outcome = "ok" THEN result ELSE Err(to_shell_error(ConnectionError, args))
stream_result(result, args, outcome) ==
    IF outcome = "ok" THEN result ELSE Err(to_shell_error(SetupError, args))

\* config_from_args, then create_stream(...).await
CreateStream(c) ==
    /\ cpc[c] = "create_stream"
    /\ cconfig' = [cconfig EXCEPT ![c] = config_from_args(cargs[c], target_os)]
    /\ IF ~cconfig'[c].ok
       THEN /\ cresult' = [cresult EXCEPT ![c] =
                              Err(to_shell_error(cconfig'[c].err, cargs[c]))]
            /\ cpc' = [cpc EXCEPT ![c] = "done"]
            /\ cnet' = cnet
       ELSE \E outcome \in StreamOutcomes :
            /\ cnet' = [cnet EXCEPT ![c].stream = outcome]
            /\ cresult' = [cresult EXCEPT ![c] = stream_result(@, cargs[c], outcome)]
            /\ cpc' = [cpc EXCEPT ![c] = IF outcome = "ok" THEN "connect" ELSE "done"]
    /\ UNCHANGED <<target_os, sessions, connections, gc_disabled, cargs, cconn, closeVars,
                   streamVars, handleVars, marshalVars>>

\* Client::connect(config, stream).await
ClientConnect(c) ==
    /\ cpc[c] = "connect"
    /\ \E outcome \in ConnectOutcomes :
        /\ cnet' = [cnet EXCEPT ![c].connect = outcome]
        /\ IF outcome.t = "ok"
           THEN /\ sessions' = Append(sessions, cargs[c])
                /\ cconn' = [cconn EXCEPT ![c] = ConnectionNew(Len(sessions) + 1)]
                /\ cpc' = [cpc EXCEPT ![c] = "insert"]
                /\ cresult' = cresult
           ELSE /\ cresult' = [cresult EXCEPT ![c] =
                                  Err(to_shell_error(connect_error(cargs[c], target_os,
                                                                   outcome), cargs[c]))]
                /\ cpc' = [cpc EXCEPT ![c] = "done"]
                /\ UNCHANGED <<sessions, cconn>>
    /\ UNCHANGED <<target_os, connections, gc_disabled, cargs, closeVars, cconfig,
                   streamVars, handleVars, marshalVars>>

\* The map after `lock.insert(args, connection.clone())`.
InsertMap(map, args, connection) == MapInsert(map, args, connection)

\* What create_connection returns once the insert is done.
InsertReturn(map, args, connection) == connection

\* `engine.set_gc_disabled(true).map_err(LabeledError::from)?` and then
\* `Ok(connection.clone())`: what create_connection returns.
gc_resultIgnored(gc_ok, connection) == Ok(connection)
gc_result(gc_ok, connection) ==
    IF gc_ok THEN Ok(connection) ELSE Err([NoError EXCEPT !.kind = "LabeledError"])

\* lock; insert; set_gc_disabled(true)?; drop(lock); Ok(connection.clone())
Insert(c) ==
    /\ cpc[c] = "insert"
    /\ pool_lock = 0
    /\ connections' = InsertMap(connections, cargs[c], cconn[c])
    /\ \E gc_ok \in BOOLEAN :
        /\ cnet' = [cnet EXCEPT ![c].gc = IF gc_ok THEN "ok" ELSE "rejected"]
        /\ gc_disabled' = (gc_ok \/ gc_disabled)
        /\ cresult' = [cresult EXCEPT ![c] =
                          gc_result(gc_ok, InsertReturn(connections, cargs[c], cconn[c]))]
    /\ cpc' = [cpc EXCEPT ![c] = "done"]
    /\ UNCHANGED <<target_os, sessions, cargs, cconn, closeVars, cconfig,
                   streamVars, handleVars, marshalVars>>

(***************************************************************************)
(* A query on a pooled Connection: it holds the connection's client mutex  *)
(* (the Mutex of `Arc::new(Mutex::new(client))`) while it runs.            *)
(***************************************************************************)
ClientMutexIgnored(flight, s) == TRUE
ClientMutexFree(flight, s) == s \notin flight

ConnectionQueryStart(c) ==
    /\ cpc[c] = "done"
    /\ cresult[c].status = "ok"
    /\ ClientMutexFree(in_flight, cresult[c].conn.session)
    /\ in_flight' = in_flight \cup {cresult[c].conn.session}
    /\ cpc' = [cpc EXCEPT ![c] = "query"]
    /\ UNCHANGED <<target_os, sessions, connections, gc_disabled, cargs, cconn, cresult,
                   pool_lock, to_close, close_count, close_failed, closed, cconfig, cnet,
                   streamVars, handleVars, marshalVars>>

ConnectionQueryEnd(c) ==
    /\ cpc[c] = "query"
    /\ in_flight' = in_flight \ {cresult[c].conn.session}
    /\ cpc' = [cpc EXCEPT ![c] = "done"]
    /\ UNCHANGED <<target_os, sessions, connections, gc_disabled, cargs, cconn, cresult,
                   pool_lock, to_close, close_count, close_failed, closed, cconfig, cnet,
                   streamVars, handleVars, marshalVars>>

(***************************************************************************)
(* MssqlPlugin::custom_value_dropped and ConnectionPool::close             *)
(***************************************************************************)
\* The host drops the custom value of caller c; custom_value_dropped blocks
\* on close(), which takes the pool mutex and starts its loop over
\* values_mut().  The guard of the mutex lives until the loop is over.
CustomValueDropped(c) ==
    /\ cpc[c] = "done"
    /\ cresult[c].status = "ok"
    /\ pool_lock = 0
    /\ pool_lock' = c
    /\ to_close' = DOMAIN connections
    /\ close_count' = [k \in DOMAIN connections |-> 0]
    /\ close_failed' = {}
    /\ cpc' = [cpc EXCEPT ![c] = "closing"]
    /\ UNCHANGED <<target_os, sessions, connections, gc_disabled, cargs, cconn, cresult,
                   closed, in_flight, cconfig, cnet, streamVars, handleVars, marshalVars>>

\* The keys the loop has yet to visit once it is done with `key`; `ok` is
\* whether the close of that connection succeeded.
CloseRemainingAbort(remaining, key, ok) == IF ok THEN remaining \ {key} ELSE {}
CloseRemaining(remaining, key, ok) == remaining \ {key}

\* One turn of the loop: connection.close().await, which waits for the
\* client mutex, asks the server to end the session, and returns nothing.
CloseConnection(c) ==
    /\ cpc[c] = "closing"
    /\ \E key \in to_close :
        /\ ClientMutexFree(in_flight, connections[key].session)
        /\ \E ok \in BOOLEAN :
            /\ closed' = IF ok THEN closed \cup {connections[key].session} ELSE closed
            /\ close_failed' = IF ok THEN close_failed ELSE close_failed \cup {key}
            /\ to_close' = CloseRemaining(to_close, key, ok)
        /\ close_count' = [close_count EXCEPT ![key] = @ + 1]
    /\ UNCHANGED <<target_os, sessions, connections, gc_disabled, cpc, cargs, cconn,
                   cresult, pool_lock, in_flight, cconfig, cnet, streamVars,
                   handleVars, marshalVars>>

\* The loop is over: the guard is dropped and custom_value_dropped returns
\* Ok(()).
CloseReturn(c) ==
    /\ cpc[c] = "closing"
    /\ to_close = {}
    /\ pool_lock' = 0
    /\ cpc' = [cpc EXCEPT ![c] = "dropped"]
    /\ UNCHANGED <<target_os, sessions, connections, gc_disabled, cargs, cconn, cresult,
                   to_close, close_count, close_failed, closed, in_flight, cconfig, cnet,
                   streamVars, handleVars, marshalVars>>

(***************************************************************************)
(* The marshaller of data/db.rs: one cell of a result row, as the driver   *)
(* hands it over (tiberius ColumnData), to one nu Value or one error.      *)
(***************************************************************************)
\* The variants of ColumnData, in the order of the match in parse_value.
Variants ==
    {"Binary", "Bit", "String", "U8", "I16", "I32", "I64", "F32", "F64", "Date", "Time",
     "DateTime", "DateTime2", "DateTimeOffset", "SmallDateTime", "Guid", "Numeric", "Xml"}

\* The scales a time(n) column has on the wire, and the increments of the
\* cells: midnight, one increment, five million increments.
TimeScales == 0..7
Increments == {0, 1, 5000000}
\* The scales of the decimal cells.
NumericScales == 0..2

\* ColumnData: the variant, whether the cell is Some, its payload (bytes,
\* text and timestamps stand as small numbers) and, for Time and Numeric,
\* the scale.
Cell(variant, some, val, scale) ==
    [variant |-> variant, some |-> some, val |-> val, scale |-> scale]
Cells ==
    {Cell(v, FALSE, 0, 0) : v \in Variants}
    \cup {Cell(v, TRUE, n, 0) : v \in Variants \ {"Time", "Numeric"}, n \in 0..MaxCellVal}
    \cup {Cell("Time", TRUE, i, sc) : i \in Increments, sc \in TimeScales}
    \cup {Cell("Numeric", TRUE, n, sc) : n \in 0..MaxCellVal, sc \in NumericScales}
NoCell == Cell("", FALSE, 0, 0)

\* nu Values: Value::nothing and the constructors parse_value uses.
NuValue(kind, val) == [kind |-> kind, val |-> val, offset |-> 0]
Nothing == NuValue("nothing", 0)
\* Result<Value, LabeledError>
MarshalOk(value) == [ok |-> TRUE, value |-> value, err |-> ""]
MarshalErr(msg) == [ok |-> FALSE, value |-> Nothing, err |-> msg]
NotParsed == [ok |-> FALSE, value |-> Nothing, err |-> ""]

\* A number m * 10^e with m not divisible by ten: durations in nanoseconds
\* exceed the range a machine word of the checker holds.
RECURSIVE Dec(_, _)
Dec(m, e) ==
    IF m = 0 THEN [m |-> 0, e |-> 0]
    ELSE IF m % 10 = 0 THEN Dec(m \div 10, e + 1)
    ELSE [m |-> m, e |-> e]

\* A parse_time that takes the increments for microseconds.
parse_timeMicros(increments, scale) ==
    MarshalOk(NuValue("duration", Dec(increments, 3)))
\* parse_time: increments * 10u64.pow(9 - scale) nanoseconds.
parse_time(increments, scale) ==
    MarshalOk(NuValue("duration", Dec(increments, 9 - scale)))

\* NaiveDateTime::from_sql: DateTime, DateTime2 and SmallDateTime cells
\* convert; any other variant is a conversion error.
from_sql(data) ==
    IF data.variant \in {"DateTime", "DateTime2", "SmallDateTime"}
    THEN [ok |-> TRUE, some |-> data.some, naive |-> data.val]
    ELSE [ok |-> FALSE, some |-> FALSE, naive |-> 0]

\* A parse_datetime that gives the null value for a cell it cannot decode.
parse_datetimeNullOnErr(data) ==
    LET r == from_sql(data) IN
    IF r.ok /\ r.some
    THEN MarshalOk([kind |-> "date", val |-> r.naive, offset |-> 0])
    ELSE MarshalOk(Nothing)
\* parse_datetime: the timestamp at offset zero, or "Failed to parse
\* datetime" when from_sql gives Ok(None) or Err.
parse_datetime(data) ==
    LET r == from_sql(data) IN
    IF r.ok /\ r.some
    THEN MarshalOk([kind |-> "date", val |-> r.naive, offset |-> 0])
    ELSE MarshalErr("Failed to parse datetime")

\* The None arm of a variant.
parse_nullXmlErr(variant) ==
    IF variant = "Xml" THEN MarshalErr("null") ELSE MarshalOk(Nothing)
parse_null(variant) == MarshalOk(Nothing)

\* parse_value: the match over the variants.
parse_value(data) ==
    CASE data.variant = "Binary" ->
            IF data.some THEN MarshalOk(NuValue("binary", data.val)) ELSE parse_null("Binary")
      [] data.variant = "Bit" ->
            IF data.some THEN MarshalOk(NuValue("bool", data.val)) ELSE parse_null("Bit")
      [] data.variant = "String" ->
            IF data.some THEN MarshalOk(NuValue("string", data.val)) ELSE parse_null("String")
      [] data.variant = "U8" ->
            IF data.some THEN MarshalOk(NuValue("int", data.val)) ELSE parse_null("U8")
      [] data.variant = "I16" ->
            IF data.some THEN MarshalOk(NuValue("int", data.val)) ELSE parse_null("I16")
      [] data.variant = "I32" ->
            IF data.some THEN MarshalOk(NuValue("int", data.val)) ELSE parse_null("I32")
      [] data.variant = "I64" ->
            IF data.some THEN MarshalOk(NuValue("int", data.val)) ELSE parse_null("I64")
      [] data.variant = "F32" ->
            IF data.some THEN MarshalOk(NuValue("float", data.val)) ELSE parse_null("F32")
      [] data.variant = "F64" ->
            IF data.some THEN MarshalOk(NuValue("float", data.val)) ELSE parse_null("F64")
      [] data.variant = "Date" ->
            IF data.some THEN parse_datetime(data) ELSE parse_null("Date")
      [] data.variant = "Time" ->
            IF data.some THEN parse_time(data.val, data.scale) ELSE parse_null("Time")
      [] data.variant = "DateTime" ->
            IF data.some THEN parse_datetime(data) ELSE parse_null("DateTime")
      [] data.variant = "DateTime2" ->
            IF data.some THEN parse_datetime(data) ELSE parse_null("DateTime2")
      [] data.variant = "DateTimeOffset" ->
            IF data.some THEN parse_datetime(data) ELSE parse_null("DateTimeOffset")
      [] data.variant = "SmallDateTime" ->
            IF data.some THEN parse_datetime(data) ELSE parse_null("SmallDateTime")
      [] data.variant = "Guid" ->
            IF data.some THEN MarshalOk(NuValue("string", data.val)) ELSE parse_null("Guid")
      [] data.variant = "Numeric" ->
            IF data.some THEN MarshalOk(NuValue("float", data.val)) ELSE parse_null("Numeric")
      [] data.variant = "Xml" ->
            IF data.some THEN MarshalOk(NuValue("string", data.val)) ELSE parse_null("Xml")

(***************************************************************************)
(* Initial values of the groups of variables.                              *)
(***************************************************************************)
\* No cell has been handed to the marshaller.
MarshalIdle ==
    /\ cell = NoCell
    /\ parsed = NotParsed

\* ConnectionPool::new: an empty map; no caller has started.
PoolIdle ==
    /\ connections = <<>>
    /\ gc_disabled = FALSE
    /\ cpc = [c \in Callers |-> "idle"]
    /\ cargs = [c \in Callers |-> CHOOSE a \in ConnectionArgs : TRUE]
    /\ cconn = [c \in Callers |-> NoConnection]
    /\ cresult = [c \in Callers |-> Pending]
    /\ pool_lock = 0
    /\ to_close = {}
    /\ close_count = <<>>
    /\ close_failed = {}
    /\ closed = {}
    /\ in_flight = {}
    /\ cconfig = [c \in Callers |-> NoConfig]
    /\ cnet = [c \in Callers |-> NoAnswers]

NoValue == [kind |-> "nothing", n |-> 0, msg |-> "", arg |-> ""]

StreamIdle ==
    /\ calls = 0
    /\ qresult = "none"
    /\ qsource = "unset"
    /\ ppc = "none"
    /\ perr = NoError
    /\ served = <<>>
    /\ pending = NoValue
    /\ chan = <<>>
    /\ sender_alive = FALSE
    /\ receiver_alive = FALSE
    /\ received = <<>>
    /\ cons = "idle"
    /\ nones = 0

HandlesIdle ==
    /\ hsess = [h \in Handles |-> 0]
    /\ hpc = [h \in Handles |-> "none"]
    /\ strong = <<>>
    /\ hpw = [h \in Handles |-> None]
    /\ hbase = {}

(***************************************************************************)
(* SpecPool: NumCallers tasks, each doing get and, on a miss,              *)
(* create_connection, with arguments of its choice.                        *)
(***************************************************************************)
\* The arguments of the callers: the default server, the default-shaped
\* buffer, every credential shape, two passwords for one user, and
\* --trust-cert given at two places of the source.
PoolArgs ==
    {a \in ConnectionArgs :
        /\ a.server = None /\ a.instance = None /\ a.database = None
        /\ a.buffer_size = 1
        /\ a.user.span # 3
        /\ a.password.val = "q" => a.user.some
        /\ a.trust_cert.some => a.user.some /\ a.password = Some("p", 2)}

\* A caller starts a get-or-create with arguments drawn from argset.
CallWith(c, argset) ==
    /\ cpc[c] = "idle"
    /\ \E a \in argset : cargs' = [cargs EXCEPT ![c] = a]
    /\ cpc' = [cpc EXCEPT ![c] = "get"]
    /\ UNCHANGED <<target_os, sessions, connections, gc_disabled, cconn, cresult,
                   closeVars, cconfig, cnet, streamVars, handleVars, marshalVars>>

Call(c) == CallWith(c, PoolArgs)

InitPool ==
    /\ target_os \in TargetOs
    /\ sessions = <<>>
    /\ PoolIdle
    /\ qcall = CHOOSE call \in QueryCalls : TRUE
    /\ qargs = from_call(qcall)
    /\ StreamIdle
    /\ HandlesIdle
    /\ MarshalIdle

NextPool ==
    \E c \in Callers : Call(c) \/ Get(c) \/ CreateStream(c) \/ ClientConnect(c) \/ Insert(c)

SpecPool == InitPool /\ [][NextPool]_vars

TypeOKPool ==
    /\ target_os \in TargetOs
    /\ DOMAIN connections \subseteq ConnectionArgs
    /\ \A k \in DOMAIN connections : connections[k].session \in 1..Len(sessions)
    /\ gc_disabled \in BOOLEAN
    /\ cpc \in [Callers -> {"idle", "get", "create_stream", "connect", "insert", "done",
                            "query", "closing", "dropped"}]
    /\ pool_lock \in Callers \cup {0}
    /\ to_close \subseteq DOMAIN connections
    /\ DOMAIN close_count \subseteq DOMAIN connections
    /\ close_failed \subseteq DOMAIN connections
    /\ closed \subseteq 1..Len(sessions)
    /\ in_flight \subseteq 1..Len(sessions)
    /\ \A c \in Callers : cconfig[c].ok \in BOOLEAN
    /\ cargs \in [Callers -> ConnectionArgs]
    /\ \A c \in Callers : cresult[c].status \in {"pending", "ok", "err"}
    /\ Len(sessions) <= NumCallers

(***************************************************************************)
(* SpecClose: the callers of SpecPool, who then run queries on the         *)
(* connection they were given and whose custom value the host drops, which *)
(* makes custom_value_dropped close the pool.                              *)
(***************************************************************************)
\* Two keys, both of which config_from_args accepts.
CloseArgs ==
    {a \in PoolArgs : ~a.user.some /\ a.password.val # "q" /\ ~a.trust_cert.some}

CallClose(c) == CallWith(c, CloseArgs)

NextClose ==
    \E c \in Callers :
        \/ CallClose(c) \/ Get(c) \/ CreateStream(c) \/ ClientConnect(c) \/ Insert(c)
        \/ ConnectionQueryStart(c) \/ ConnectionQueryEnd(c)
        \/ CustomValueDropped(c) \/ CloseConnection(c) \/ CloseReturn(c)

SpecClose == InitPool /\ [][NextClose]_vars

(***************************************************************************)
(* SpecConfig: create_connection's first step, config_from_args and        *)
(* create_stream, on every ConnectionArgs that from_call can build.        *)
(***************************************************************************)
InitConfig ==
    /\ target_os \in TargetOs
    /\ sessions = <<>>
    /\ connections = <<>>
    /\ gc_disabled = FALSE
    /\ cpc = [c \in Callers |-> "create_stream"]
    /\ \E a \in ConnectionArgs : cargs = [c \in Callers |-> a]
    /\ cconn = [c \in Callers |-> NoConnection]
    /\ cresult = [c \in Callers |-> Pending]
    /\ pool_lock = 0
    /\ to_close = {}
    /\ close_count = <<>>
    /\ close_failed = {}
    /\ closed = {}
    /\ in_flight = {}
    /\ cconfig = [c \in Callers |-> NoConfig]
    /\ cnet = [c \in Callers |-> NoAnswers]
    /\ qcall = CHOOSE call \in QueryCalls : TRUE
    /\ qargs = from_call(qcall)
    /\ StreamIdle
    /\ HandlesIdle
    /\ MarshalIdle

NextConfig == \E c \in Callers : CreateStream(c)

SpecConfig == InitConfig /\ [][NextConfig]_vars

(***************************************************************************)
(* SpecKeys: the callers of SpecPool with the same credentials typed at    *)
(* two places of the source, which gives keys that are equal as values and *)
(* differ in the span of the user name.                                    *)
(***************************************************************************)
\* No credentials, and one user and password with the user name at two
\* source locations.
KeyArgs ==
    {a \in ConnectionArgs :
        /\ a.server = None /\ a.instance = None /\ a.database = None
        /\ a.buffer_size = 1
        /\ ~a.trust_cert.some
        /\ a.password.val # "q"
        /\ a.user.some <=> a.password.some}

CallKeys(c) == CallWith(c, KeyArgs)

NextKeys ==
    \E c \in Callers :
        CallKeys(c) \/ Get(c) \/ CreateStream(c) \/ ClientConnect(c) \/ Insert(c)

SpecKeys == InitPool /\ [][NextKeys]_vars

\* C39: hashing of connection keys agrees with their equality.  A caller
\* that looks up a key equal to a key stored in the pool, whatever source
\* location its fields were typed at, feeds the hasher what the stored key
\* fed it, and the lookup finds the entry.
C39_EqualKeysFound ==
    \A c \in Callers :
        cpc[c] = "get" =>
            \A k \in DOMAIN connections :
                eq(k, cargs[c]) =>
                    /\ hash(k) = hash(cargs[c])
                    /\ HasKey(connections, cargs[c])

\* The method get_auth_method falls back to when no credential is given.
PlatformDefault(os) == IF os = "windows" THEN AuthIntegrated ELSE AuthNone

\* C19: with a user and no password, building the config fails with
\* UserWithoutPassword carrying the span of the user value, whatever the
\* server, instance, database, trust-cert flag and buffer size are; the
\* call returns that error.
C19_UserWithoutPassword ==
    \A c \in Callers :
        (/\ cpc[c] # "create_stream"
         /\ cargs[c].user.some
         /\ ~cargs[c].password.some)
        => /\ ~cconfig[c].ok
           /\ cconfig[c].err = UserWithoutPassword(cargs[c].user.span)
           /\ cpc[c] = "done"
           /\ cresult[c] = Err(to_shell_error(UserWithoutPassword(cargs[c].user.span),
                                              cargs[c]))

\* The config was refused for a user without password, with every other
\* parameter given.
C19_Witness ==
    \E c \in Callers :
        /\ cpc[c] = "done"
        /\ cargs[c].user = Some("alice", 3)
        /\ ~cargs[c].password.some
        /\ cargs[c].server.some /\ cargs[c].instance.some /\ cargs[c].database.some
        /\ cargs[c].trust_cert.some
        /\ cargs[c].buffer_size = MaxBuf
        /\ cresult[c].err.kind = "UserWithoutPassword"

\* C20: user and password give SQL Server authentication with exactly that
\* user and password; a password without a user gives it with user "sa" and
\* that password; neither gives the platform's default method.
C20_AuthMethodByShape ==
    \A c \in Callers :
        cpc[c] # "create_stream" =>
            /\ (cargs[c].user.some /\ cargs[c].password.some)
               => /\ cconfig[c].ok
                  /\ cconfig[c].auth
                       = AuthSqlServer(cargs[c].user.val, cargs[c].password.val)
            /\ (~cargs[c].user.some /\ cargs[c].password.some)
               => /\ cconfig[c].ok
                  /\ cconfig[c].auth = AuthSqlServer("sa", cargs[c].password.val)
            /\ (~cargs[c].user.some /\ ~cargs[c].password.some)
               => /\ cconfig[c].ok
                  /\ cconfig[c].auth = PlatformDefault(target_os)

\* A config was built from a password alone and carries the default user.
C20_Witness ==
    \E c \in Callers :
        /\ cpc[c] = "connect"
        /\ ~cargs[c].user.some
        /\ cargs[c].password = Some("q", 2)
        /\ cconfig[c].auth = AuthSqlServer("sa", "q")

(***************************************************************************)
(* Claims about the pool (checked under SpecPool).                         *)
(***************************************************************************)
\* C21: a create_connection that failed reports the error kind of the place
\* where it failed: SetupError when the transport could not be set up,
\* LoginFailed with the authentication method built from the arguments when
\* the server rejected the handshake with code 18456, ConnectionError for
\* any other handshake failure.
C21_ErrorKindByPlace ==
    \A c \in Callers :
        /\ cnet[c].stream = "io_error"
           => cpc[c] = "done" /\ cresult[c] = Err(to_shell_error(SetupError, cargs[c]))
        /\ (cnet[c].connect.t = "server" /\ cnet[c].connect.code = LOGIN_FAILED_CODE)
           => /\ cpc[c] = "done"
              /\ cresult[c] = Err(to_shell_error(LoginFailed(cconfig[c].auth), cargs[c]))
        /\ (/\ cnet[c].connect.t \notin {"none", "ok"}
            /\ ~(cnet[c].connect.t = "server" /\ cnet[c].connect.code = LOGIN_FAILED_CODE))
           => cpc[c] = "done" /\ cresult[c] = Err(to_shell_error(ConnectionError, cargs[c]))

\* One call failed at the transport and another at a login the server
\* rejected for the user it was given.
C21_Witness ==
    \E c, d \in Callers :
        /\ cnet[c].stream = "io_error" /\ cpc[c] = "done"
        /\ cnet[d].connect.code = LOGIN_FAILED_CODE /\ cpc[d] = "done"
        /\ cresult[d].err.auth = AuthSqlServer("alice", "p")

(***************************************************************************)
(* More claims about the pool (checked under SpecPool).                    *)
(***************************************************************************)
\* The callers that have called with arguments a.
CallersOf(a) == {c \in Callers : cpc[c] # "idle" /\ cargs[c] = a}
\* The sessions the server has established for arguments a.
SessionsOf(a) == {i \in 1..Len(sessions) : sessions[i] = a}

\* C1: when all the get-or-create calls made with identical arguments have
\* returned a connection, exactly one server session was established for
\* those arguments and every caller holds a handle to that same session.
C1_OneSessionPerKey ==
    \A a \in PoolArgs :
        (/\ CallersOf(a) # {}
         /\ \A c \in CallersOf(a) : cpc[c] = "done" /\ cresult[c].status = "ok")
        => /\ Cardinality(SessionsOf(a)) = 1
           /\ \A c, d \in CallersOf(a) :
                  cresult[c].conn.session = cresult[d].conn.session

\* C2: when create_connection reaches its insert and the map already has an
\* entry for its key, the insert leaves that entry as it is and the call
\* returns the existing Connection, not the one it has just built.
C2_FirstWriterWins ==
    [][\A c \in Callers :
          (/\ cpc[c] = "insert"
           /\ cpc'[c] = "done"
           /\ cargs[c] \in DOMAIN connections)
          => /\ connections'[cargs[c]] = connections[cargs[c]]
             /\ cresult'[c].status = "ok"
                => cresult'[c].conn.session = connections[cargs[c]].session]_vars

\* Caller c's create_connection returned Ok.
CreateSucceeded(c) ==
    cpc[c] = "done" /\ cresult[c].status = "ok" /\ cconn[c] # NoConnection

\* C16: get(key) finds a connection if and only if a create_connection for
\* an equal key has returned Ok before; and get neither adds a key to the map
\* nor establishes a session.
C16_GetIffCreated ==
    /\ [](\A key \in PoolArgs :
             HasKey(connections, key)
             <=> \E c \in Callers : CreateSucceeded(c) /\ eq(cargs[c], key))
    /\ [][\A c \in Callers :
             cpc[c] = "get" /\ cpc'[c] # "get"
             => DOMAIN connections' = DOMAIN connections /\ sessions' = sessions]_vars

\* The call of c failed at configuration, transport or handshake.
FailedBeforeInsert(c) ==
    /\ cpc[c] = "done"
    /\ cresult[c].status = "err"
    /\ cresult[c].err.kind \in {"UserWithoutPassword", "SetupError", "LoginFailed",
                                "ConnectionError"}

\* C25: a create_connection that returns a connection has told the host to
\* disable plugin GC, and the host took it, before it returned; one that
\* fails at configuration, transport or handshake sends no such signal, and
\* the host's setting changes in no other step than the one after the insert.
C25_GcDisabledBeforeReturn ==
    /\ [](\A c \in Callers :
             /\ CreateSucceeded(c) => cnet[c].gc = "ok" /\ gc_disabled
             /\ FailedBeforeInsert(c) => cnet[c].gc = "none")
    /\ [][gc_disabled' # gc_disabled
            => \E c \in Callers : cpc[c] = "insert" /\ cpc'[c] = "done"]_vars

\* One call returned its connection after the host accepted the signal; the
\* other was refused at the handshake and sent none.
C25_Witness ==
    \E c, d \in Callers :
        /\ CreateSucceeded(c)
        /\ cnet[c].gc = "ok"
        /\ FailedBeforeInsert(d)
        /\ cresult[d].err.kind = "LoginFailed"
        /\ cnet[d].gc = "none"

\* Caller c's get runs in this step.
GetStep(c) == cpc[c] = "get" /\ cpc'[c] # "get"

\* C35: get changes nothing of the pool but one reference count. A hit with
\* increment=true raises the count of the entry it looked up by exactly 1
\* and leaves every other entry, that entry's session and the key set as
\* they were; a hit with increment=false and any miss leave the map, the
\* sessions and the closed set unchanged.
C35_GetOnlyBumpsCount ==
    [][\A c \in Callers : GetStep(c) =>
        /\ DOMAIN connections' = DOMAIN connections
        /\ sessions' = sessions
        /\ gc_disabled' = gc_disabled
        /\ closed' = closed
        /\ IF HasKey(connections, cargs[c])
           THEN LET k == KeyOf(connections, cargs[c]) IN
                /\ cnet'[c].increment \in {"true", "false"}
                /\ \A j \in DOMAIN connections \ {k} : connections'[j] = connections[j]
                /\ connections'[k].session = connections[k].session
                /\ cnet'[c].increment = "true" =>
                       connections'[k].reference_count = connections[k].reference_count + 1
                /\ cnet'[c].increment = "false" => connections' = connections
           ELSE /\ connections' = connections
                /\ cnet'[c].increment = "none"]_vars

\* A get with increment=true found the key and returned the entry with its
\* count raised.
C35_Witness ==
    \E c \in Callers :
        /\ cpc[c] = "done"
        /\ cnet[c].increment = "true"
        /\ cresult[c].status = "ok"
        /\ HasKey(connections, cargs[c])
        /\ cresult[c].conn.reference_count >= 1
        /\ cresult[c].conn = connections[KeyOf(connections, cargs[c])]

\* C37: once ConnectionPool::close has closed a session, get never hands
\* out the connection of that session: a get that finds the key returns a
\* connection whose session has not been closed.
C37_NoClosedConnectionHandedOut ==
    [][\A c \in Callers :
        (GetStep(c) /\ cresult'[c].status = "ok") =>
            cresult'[c].conn.session \notin closed]_vars

\* Caller c's create_connection takes a step.
CreateStep(c) == cpc[c] \in {"create_stream", "connect", "insert"} /\ cpc'[c] # cpc[c]

\* C38: a create_connection that returns an error leaves the pool map as it
\* was: only the step with which create_connection returns Ok changes the
\* map, so no entry has been inserted or replaced when it returns Err, the
\* host rejecting the disable-GC request included.
C38_ErrLeavesMap ==
    [][\A c \in Callers :
        (CreateStep(c) /\ ~(cpc'[c] = "done" /\ cresult'[c].status = "ok")) =>
            connections' = connections]_vars

\* Keys a and b agree on every field but the password.
SameExceptPassword(a, b) == eq([a EXCEPT !.password = None], [b EXCEPT !.password = None])

\* C17: the password takes no part in key identity; a lookup with
\* a key that differs from a stored key only in its password finds that
\* stored key's Connection.
C17_PasswordIgnored ==
    \A key \in DOMAIN connections : \A other \in PoolArgs :
        SameExceptPassword(key, other)
        => /\ HasKey(connections, other)
           /\ GetReturn(connections, other) = connections[key]

\* C18: --trust-cert counts by presence only; a lookup with a key that has
\* the flag at another place of the source than a stored key, and is
\* otherwise the same, finds that stored key's Connection.
C18_TrustCertByPresence ==
    \A key \in DOMAIN connections : \A other \in PoolArgs :
        (/\ key.trust_cert.some
         /\ other.trust_cert.some
         /\ [key EXCEPT !.trust_cert = other.trust_cert] = other)
        => /\ HasKey(connections, other)
           /\ GetReturn(connections, other) = connections[key]

(***************************************************************************)
(* Claims about closing the pool (checked under SpecClose).                *)
(***************************************************************************)
\* Caller c is at a point where its next step is network I/O: the TCP
\* connect, the handshake, or the close of a session.
NetworkWait(c) ==
    \/ cpc[c] \in {"create_stream", "connect"}
    \/ cpc[c] = "closing" /\ to_close # {}

\* The callers that hold a connection handle the host has not dropped.
OutstandingHandles ==
    {c \in Callers : cpc[c] \in {"done", "query"} /\ cresult[c].status = "ok"}

\* C12: no task holds the pool mutex while it waits on network I/O, be it
\* the connect and handshake of create_connection or the session close of
\* close.
C12_LockOnlyForMapAccess ==
    \A c \in Callers : NetworkWait(c) => pool_lock # c

C14_CloseOnlyWhenNoHandles ==
    [][closed' # closed => OutstandingHandles = {}]_vars

\* C15: while close() runs, every connection of the pool its loop has
\* visited was asked to close exactly once and the others not yet; so when
\* the loop is over every connection was asked exactly once, whether or not
\* some of the closes failed.
C15_CloseEveryConnectionOnce ==
    \A c \in Callers :
        cpc[c] = "closing" =>
            /\ pool_lock = c
            /\ DOMAIN close_count = DOMAIN connections
            /\ \A key \in DOMAIN connections :
                   close_count[key] = IF key \in to_close THEN 0 ELSE 1

\* close() is over its loop on a pool of two connections, one of whose
\* closes failed.
C15_Witness ==
    \E c \in Callers :
        /\ cpc[c] = "closing"
        /\ to_close = {}
        /\ close_failed # {}
        /\ DOMAIN connections \ close_failed # {}

\* The outstanding handles on the session of the connection pooled under k.
Borrowers(k) ==
    {c \in OutstandingHandles : cresult[c].conn.session = connections[k].session}

\* C24: the reference count of every pooled Connection equals the number of
\* handles on it that were acquired through the pool and not yet dropped;
\* an acquisition raises it by one and the drop of a handle lowers it by one.
C24_RefCountTracksBorrowers ==
    /\ [](\A k \in DOMAIN connections :
             connections[k].reference_count = Cardinality(Borrowers(k)))
    /\ [][\A c \in Callers :
             (cpc[c] = "get" /\ cpc'[c] = "done")
             => connections'[KeyOf(connections, cargs[c])].reference_count
                = connections[KeyOf(connections, cargs[c])].reference_count + 1]_vars
    /\ [][\A c \in Callers :
             (c \in OutstandingHandles /\ cpc'[c] = "closing" /\ HasKey(connections, cargs[c]))
             => connections'[KeyOf(connections, cargs[c])].reference_count
                = connections[KeyOf(connections, cargs[c])].reference_count - 1]_vars

(***************************************************************************)
(* The streaming pipeline: values, the bounded channel, handle_err.        *)
(***************************************************************************)
\* Value::record for the n-th row of the result, Value::error with its text.
Row(n) == [kind |-> "record", n |-> n, msg |-> "", arg |-> ""]
ErrorValue(msg, arg) == [kind |-> "error", n |-> 0, msg |-> msg, arg |-> arg]

\* A channel created one slot larger than the row buffer asked for.
CapacityOneMore(args) == args.buffer_size + 1
\* async_std::channel::bounded(args.buffer_size)
Capacity(args) == args.buffer_size
\* Sender::send completes only when the queue has room.
CanSend(queue, cap) == Len(queue) < cap
\* A send that puts the value at the front of the queue.
ChanSendFront(queue, value) == <<value>> \o queue
\* Sender::send puts the value at the back, Receiver::recv takes the front.
ChanSend(queue, value) == Append(queue, value)
ChanRecvKeep(queue) == [value |-> Head(queue), rest |-> queue]
ChanRecv(queue) == [value |-> Head(queue), rest |-> Tail(queue)]

\* A handle_err whose login message prints the password next to the user.
handle_errShowsPassword(error, args) ==
    IF error.kind = "LoginFailed"
    THEN IF error.auth.kind = "Integrated"
         THEN [panic |-> FALSE, value |-> ErrorValue("Login failed for integrated auth", "")]
         ELSE IF error.auth.kind = "None"
         THEN [panic |-> FALSE, value |-> ErrorValue("Login failed for none auth", "")]
         ELSE IF args.user.some
         THEN [panic |-> FALSE,
               value |-> ErrorValue("Login failed for user, password",
                                    <<args.user.val, args.password.val>>)]
         ELSE [panic |-> TRUE, value |-> NoValue]
    ELSE IF error.kind = "UserWithoutPassword"
    THEN [panic |-> FALSE, value |-> ErrorValue("Invalid credentials", "")]
    ELSE IF error.kind = "SetupError"
    THEN [panic |-> FALSE, value |-> ErrorValue("Error while setting up connection", "")]
    ELSE [panic |-> FALSE, value |-> ErrorValue("Error while connecting to database", "")]
\* commands/query.rs handle_err: the value built for a ConnectionError;
\* `args.user.as_ref().unwrap()` panics when no user was given.
handle_err(error, args) ==
    IF error.kind = "LoginFailed"
    THEN IF error.auth.kind = "Integrated"
         THEN [panic |-> FALSE, value |-> ErrorValue("Login failed for integrated auth", "")]
         ELSE IF error.auth.kind = "None"
         THEN [panic |-> FALSE, value |-> ErrorValue("Login failed for none auth", "")]
         ELSE IF args.user.some
         THEN [panic |-> FALSE,
               value |-> ErrorValue("Login failed for user, password: <HIDDEN>", args.user.val)]
         ELSE [panic |-> TRUE, value |-> NoValue]
    ELSE IF error.kind = "UserWithoutPassword"
    THEN [panic |-> FALSE, value |-> ErrorValue("Invalid credentials", "")]
    ELSE IF error.kind = "SetupError"
    THEN [panic |-> FALSE, value |-> ErrorValue("Error while setting up connection", "")]
    ELSE [panic |-> FALSE, value |-> ErrorValue("Error while connecting to database", "")]

\* create_client: config, transport, handshake; the session or the error.
create_client(args, os, stream_outcome, connect_outcome) ==
    LET config == config_from_args(args, os) IN
    IF ~config.ok THEN [ok |-> FALSE, err |-> config.err]
    ELSE IF stream_outcome # "ok" THEN [ok |-> FALSE, err |-> SetupError]
    ELSE IF connect_outcome.t # "ok"
    THEN [ok |-> FALSE, err |-> connect_error(args, os, connect_outcome)]
    ELSE [ok |-> TRUE, err |-> NoError]

\* parse_value over the cells of a row: a row whose cells all convert gives
\* its record; a row with a date cell that parse_datetime rejects gives Err.
RowItems == {"row", "badcell"}
\* The record holding only the cells that came before the failing one.
PartialRow(n) == [kind |-> "record", n |-> n, msg |-> "partial", arg |-> ""]
\* A loop over the cells that skips the cell that does not parse.
parse_rowSkipsCell(item, n) ==
    IF item = "row" THEN [ok |-> TRUE, record |-> Row(n)]
    ELSE [ok |-> TRUE, record |-> PartialRow(n)]
parse_row(item, n) ==
    IF item = "row" THEN [ok |-> TRUE, record |-> Row(n)]
    ELSE [ok |-> FALSE, record |-> PartialRow(n)]

Panics == {"panic_handle_err", "panic_simple_query", "panic_row", "panic_parse_value"}
Terminated == Panics \cup {"done"}

\* The future handed to task::spawn owns the Sender: the Sender is dropped
\* when the future returns and when a panic unwinds it.  This one leaks the
\* Sender of a task that panicked.
sender_droppedOnReturn(pc) == pc = "done"

\* The future handed to task::spawn owns the Sender: the Sender is dropped
\* when the future returns and when a panic unwinds it.
sender_dropped(pc) == pc \in Terminated

(***************************************************************************)
(* Query::run                                                              *)
(***************************************************************************)
\* get_query: the source is query text, a readable file, an unreadable
\* file, or missing.
Sources == {"query", "file", "file_unreadable", "none"}
get_queryReadsAnyFile(source) == source \in {"query", "file", "file_unreadable"}
get_query(source) == source \in {"query", "file"}

\* A run that waits for the connection before it returns.
task_spawnBlockOn(sess, args, os) ==
    IF create_client(args, os, "ok", [t |-> "ok", code |-> 0]).ok
    THEN [ppc |-> "simple_query", sessions |-> Append(sess, args)]
    ELSE [ppc |-> "create_client", sessions |-> sess]
\* task::spawn(async move { ... }): the task exists and has not run yet; the
\* caller goes on without awaiting it.
task_spawn(sess, args, os) == [ppc |-> "create_client", sessions |-> sess]

QueryRun ==
    /\ calls < MaxCalls
    /\ ppc \in Terminated \cup {"none"}
    /\ cons \in {"idle", "ended", "dropped"}
    /\ calls' = calls + 1
    /\ \E source \in Sources :
        /\ qsource' = source
        /\ IF get_query(source)
           THEN /\ qresult' = "iterator"
                /\ chan' = <<>>
                /\ sender_alive' = TRUE
                /\ receiver_alive' = TRUE
                /\ ppc' = task_spawn(sessions, qargs, target_os).ppc
                /\ sessions' = task_spawn(sessions, qargs, target_os).sessions
                /\ cons' = "running"
           ELSE /\ qresult' = "error"
                /\ chan' = <<>>
                /\ sender_alive' = FALSE
                /\ receiver_alive' = FALSE
                /\ ppc' = "none"
                /\ sessions' = sessions
                /\ cons' = "idle"
    /\ perr' = NoError
    /\ served' = <<>>
    /\ pending' = NoValue
    /\ received' = <<>>
    /\ nones' = 0
    /\ UNCHANGED <<target_os, qcall, qargs, poolVars, handleVars, marshalVars>>

(***************************************************************************)
(* The producer task spawned by Query::run.                                *)
(***************************************************************************)
\* create_client(&args).await
ProducerConnect ==
    /\ ppc = "create_client"
    /\ \E so \in StreamOutcomes, co \in ConnectOutcomes :
        LET r == create_client(qargs, target_os, so, co) IN
        IF r.ok
        THEN /\ sessions' = Append(sessions, qargs)
             /\ ppc' = "simple_query"
             /\ perr' = perr
        ELSE /\ sessions' = sessions
             /\ ppc' = "handle_err"
             /\ perr' = r.err
    /\ UNCHANGED <<target_os, qcall, qargs, nones, calls, qresult, qsource, served, pending, chan,
                   sender_alive, receiver_alive, received, cons, poolVars, handleVars, marshalVars>>

\* handle_err(e, &args, call_head, sender).await: build the value, send it,
\* ignore the result of the send; the sender is dropped with the task.
HandleErr ==
    /\ ppc = "handle_err"
    /\ LET r == handle_err(perr, qargs) IN
       IF r.panic
       THEN /\ ppc' = "panic_handle_err"
            /\ chan' = chan
       ELSE /\ ppc' = "done"
            /\ IF receiver_alive
               THEN /\ CanSend(chan, Capacity(qargs))
                    /\ chan' = ChanSend(chan, r.value)
               ELSE chan' = chan
    /\ sender_alive' = ~sender_dropped(ppc')
    /\ UNCHANGED <<target_os, sessions, qcall, qargs, nones, calls, qresult, qsource, perr, served, pending,
                   receiver_alive, received, cons, poolVars, handleVars, marshalVars>>

\* client.simple_query(query).await: Err panics.
SimpleQuery ==
    /\ ppc = "simple_query"
    /\ \E ok \in BOOLEAN :
        IF ok
        THEN /\ ppc' = "next_row"
             /\ sender_alive' = sender_alive
        ELSE /\ ppc' = "panic_simple_query"
             /\ sender_alive' = ~sender_dropped(ppc')
    /\ UNCHANGED <<target_os, sessions, qcall, qargs, nones, calls, qresult, qsource, perr, served, pending,
                   chan, receiver_alive, received, cons, poolVars, handleVars, marshalVars>>

\* row_stream.next().await and the marshalling of the row it yields:
\* None ends the loop, Err panics, a cell that does not parse panics,
\* otherwise the record is ready to be sent.
NextRow ==
    /\ ppc = "next_row"
    /\ \/ /\ ppc' = "done"
          /\ sender_alive' = ~sender_dropped(ppc')
          /\ UNCHANGED <<served, pending>>
       \/ /\ Len(served) < MaxRows
          /\ served' = Append(served, "err")
          /\ ppc' = "panic_row"
          /\ sender_alive' = ~sender_dropped(ppc')
          /\ pending' = pending
       \/ /\ Len(served) < MaxRows
          /\ \E item \in RowItems :
              LET r == parse_row(item, Len(served) + 1) IN
              /\ served' = Append(served, item)
              /\ IF r.ok
                 THEN /\ pending' = r.record
                      /\ ppc' = "send"
                      /\ sender_alive' = sender_alive
                 ELSE /\ pending' = pending
                      /\ ppc' = "panic_parse_value"
                      /\ sender_alive' = ~sender_dropped(ppc')
    /\ UNCHANGED <<target_os, sessions, qcall, qargs, nones, calls, qresult, qsource, perr, chan,
                   receiver_alive, received, cons, poolVars, handleVars, marshalVars>>

\* sender.send(record).await: waits for room; on a closed channel the send
\* fails, sender.is_closed() holds and run_query returns.
Send ==
    /\ ppc = "send"
    /\ IF receiver_alive
       THEN /\ CanSend(chan, Capacity(qargs))
            /\ chan' = ChanSend(chan, pending)
            /\ ppc' = "next_row"
            /\ sender_alive' = sender_alive
       ELSE /\ chan' = chan
            /\ ppc' = "done"
            /\ sender_alive' = ~sender_dropped(ppc')
    /\ pending' = NoValue
    /\ UNCHANGED <<target_os, sessions, qcall, qargs, nones, calls, qresult, qsource, perr, served,
                   receiver_alive, received, cons, poolVars, handleVars, marshalVars>>

(***************************************************************************)
(* The consumer: TableIterator::next, and dropping the iterator.           *)
(***************************************************************************)
\* recv_blocking: a queued value if there is one, None once the queue is
\* empty and the sender is gone, and waiting otherwise.  The iterator can
\* be asked again after it returned None.
IteratorNext ==
    /\ cons \in {"running", "ended"}
    /\ IF chan # <<>>
       THEN /\ received' = Append(received, ChanRecv(chan).value)
            /\ chan' = ChanRecv(chan).rest
            /\ cons' = "running"
            /\ nones' = nones
       ELSE /\ ~sender_alive
            /\ nones < MaxNones
            /\ cons' = "ended"
            /\ nones' = nones + 1
            /\ UNCHANGED <<received, chan>>
    /\ UNCHANGED <<target_os, sessions, qcall, qargs, calls, qresult, qsource, ppc, perr, served,
                   pending, sender_alive, receiver_alive, poolVars, handleVars, marshalVars>>

\* The host drops the iterator: the Receiver is dropped, the channel closes.
IteratorDrop ==
    /\ cons = "running"
    /\ cons' = "dropped"
    /\ receiver_alive' = FALSE
    /\ UNCHANGED <<target_os, sessions, qcall, qargs, nones, calls, qresult, qsource, ppc, perr, served,
                   pending, chan, sender_alive, received, poolVars, handleVars, marshalVars>>

InitStream ==
    /\ target_os \in TargetOs
    /\ sessions = <<>>
    /\ PoolIdle
    /\ qcall \in QueryCalls
    /\ qargs = from_call(qcall)
    /\ StreamIdle
    /\ HandlesIdle
    /\ MarshalIdle

NextStream ==
    \/ QueryRun
    \/ ProducerConnect
    \/ HandleErr
    \/ SimpleQuery
    \/ NextRow
    \/ Send
    \/ IteratorNext
    \/ IteratorDrop

SpecStream == InitStream /\ [][NextStream]_vars

TypeOKStream ==
    /\ qargs \in QueryArgs
    /\ calls \in 0..MaxCalls
    /\ qresult \in {"none", "iterator", "error"}
    /\ qsource \in Sources \cup {"unset"}
    /\ ppc \in Terminated \cup {"none", "create_client", "handle_err", "simple_query",
                                "next_row", "send"}
    /\ Len(served) <= MaxRows
    /\ sender_alive \in BOOLEAN
    /\ receiver_alive \in BOOLEAN
    /\ cons \in {"idle", "running", "ended", "dropped"}
    /\ nones \in 0..MaxNones
    /\ cons = "ended" <=> nones >= 1
    /\ sender_alive => ppc \notin Terminated
    /\ connections = <<>>

(***************************************************************************)
(* Claims about the streaming pipeline (checked under SpecStream).         *)
(***************************************************************************)
\* The number of rows the server's stream has yielded in this call.
RowsServed == Cardinality({i \in 1..Len(served) : served[i] \in RowItems})
\* The producer ran the query to the end of its row stream.
StreamEnded == ppc = "done" /\ perr = NoError /\ cons = "ended"

\* C4: the consumer sees the rows of the result in the order the server
\* produced them, none dropped and none twice; when the query's K rows have
\* all been produced and next() has returned None, it has seen exactly K.
C4_RowsInOrder ==
    /\ perr = NoError => \A i \in 1..Len(received) : received[i] = Row(i)
    /\ StreamEnded => Len(received) = Len(served)

\* The two-row query with a channel of capacity 1, read to the end.
C4_Witness ==
    /\ StreamEnded
    /\ qargs.buffer_size = 1
    /\ received = <<Row(1), Row(2)>>

\* C5: the channel never holds more than buffer_size values; a send
\* completes only from a state where the queue has room, and next() returns
\* only when the queue is non-empty or the sender is gone.
C5_Backpressure ==
    /\ [](Len(chan) <= qargs.buffer_size)
    /\ [][(ppc = "send" /\ ppc' = "next_row")
            => (Len(chan) < qargs.buffer_size /\ Len(chan') = Len(chan) + 1)]_vars
    /\ [][(cons = "running" /\ (received' # received \/ cons' = "ended"))
            => (chan # <<>> \/ ~sender_alive)]_vars

\* The producer waits in send on a full queue while the consumer is alive.
C5_Witness ==
    /\ ppc = "send"
    /\ receiver_alive
    /\ Len(chan) = qargs.buffer_size

\* C6: once the consumer has read a row and dropped the iterator, the
\* producer task does not panic on its way to termination.
C6_NoPanicAfterAbandon ==
    [][(cons = "dropped" /\ Len(received) >= 1)
         => (ppc' \in Panics => ppc \in Panics)]_vars

\* C7: when the query submission or the row stream fails after N rows, the
\* consumer has received, at stream end, the N rows and then one error value.
C7_FinalErrorItem ==
    (cons = "ended" /\ ppc \in {"panic_simple_query", "panic_row"})
    => /\ Len(received) = RowsServed + 1
       /\ \A i \in 1..RowsServed : received[i] = Row(i)
       /\ received[Len(received)].kind = "error"

\* C8: when a cell of a row fails to marshal, the last value the consumer
\* receives before stream end is an error value.
C8_MarshalErrorSurfaced ==
    (cons = "ended" /\ ppc = "panic_parse_value")
    => /\ received # <<>>
       /\ received[Len(received)].kind = "error"

\* C9: when connection establishment fails, the consumer receives no row
\* and exactly one error value before stream end.
C9_ConnectErrorSingleValue ==
    (cons = "ended" /\ perr # NoError)
    => /\ Len(received) = 1
       /\ received[1].kind = "error"

\* C10: successive query calls with identical connection parameters run on
\* one server session: the calls together open at most one.
C10_SecondCallReuses ==
    Cardinality({i \in 1..Len(sessions) : sessions[i] = qargs}) <= 1

\* C26: the capacity of the row channel a query call creates is the
\* row-buffer value the caller supplied, and 10 when none was supplied.
C26_CapacityIsRowBuffer ==
    qresult = "iterator"
    => Capacity(qargs) = IF qcall.row_buffer.some THEN qcall.row_buffer.val
                         ELSE DEFAULT_BUFFER_SIZE

\* A step of the network: a session is established, or the server's row
\* stream answers the query or yields an item.
NetworkStep ==
    \/ sessions' # sessions
    \/ ppc = "simple_query" /\ ppc' # ppc
    \/ ppc = "next_row" /\ ppc' # ppc

\* C27: Query::run returns the iterator without waiting for the connection,
\* the query or a row: at its return the producer task is spawned and has
\* not started, and every step of the network is a step of that task, taken
\* after the return.
C27_RunDoesNotWait ==
    /\ [][(calls' = calls + 1 /\ qresult' = "iterator")
            => (/\ ppc' = "create_client"
                /\ sessions' = sessions
                /\ served' = <<>>
                /\ chan' = <<>>
                /\ received' = <<>>)]_vars
    /\ [][NetworkStep => (calls' = calls /\ qresult = "iterator" /\ ppc \notin Terminated)]_vars

\* The call has returned its iterator, the consumer has read nothing, and
\* the task is only now waiting for the server to answer the query.
C27_Witness ==
    /\ qresult = "iterator"
    /\ ppc = "simple_query"
    /\ Len(sessions) >= 1
    /\ received = <<>>
    /\ cons = "running"

\* The rows among the values next() has returned.
RowsReceived == {i \in 1..Len(received) : received[i].kind = "record"}

\* C28: the row sequence is finite and non-restartable: it has no more rows
\* than the server's stream yielded, no row is delivered twice, and once
\* next() has returned None every later call on this iterator returns None
\* and delivers nothing.
C28_FiniteNonRestartable ==
    /\ [](Cardinality(RowsReceived) <= RowsServed)
    /\ [](\A i, j \in RowsReceived : i # j => received[i] # received[j])
    /\ [][(cons = "ended" /\ calls' = calls)
            => (cons' = "ended" /\ received' = received)]_vars

\* next() was called again after it had returned None at the end of a
\* two-row result, and returned None again.
C28_Witness ==
    /\ nones = 2
    /\ cons = "ended"
    /\ received = <<Row(1), Row(2)>>

\* C29: a query call with neither query text nor file, or with a file that
\* cannot be read, returns a query-source error, and has then created no
\* channel, spawned no producer task and attempted no connection.
C29_SourceErrorFirst ==
    /\ [](qsource \in {"none", "file_unreadable"}
          => /\ qresult = "error"
             /\ ppc = "none"
             /\ ~sender_alive /\ ~receiver_alive /\ chan = <<>>
             /\ cons = "idle")
    /\ [][qsource' \in {"none", "file_unreadable"} => sessions' = sessions]_vars

\* After a call that opened a session, a call with an unreadable file fails
\* and leaves that one session as the only one.
C29_Witness ==
    /\ calls = 2
    /\ qsource = "file_unreadable"
    /\ qresult = "error"
    /\ Len(sessions) = 1

\* The values the producer has sent or is sending.
Sent ==
    {received[i] : i \in 1..Len(received)} \cup {chan[i] : i \in 1..Len(chan)}
    \cup (IF ppc = "send" THEN {pending} ELSE {})

\* C34: every record sent holds all the cells of a result row whose cells
\* all marshalled; once a cell has failed to marshal, the record built from
\* the cells before it is not sent, and nothing more is sent in that call.
C34_NoPartialRows ==
    /\ [](\A v \in Sent :
             v.kind = "record"
             => /\ v.n \in 1..Len(served)
                /\ served[v.n] = "row"
                /\ v = Row(v.n))
    /\ [][(ppc = "panic_parse_value" /\ calls' = calls)
            => (ppc' = ppc /\ Len(chan') <= Len(chan) /\ served' = served)]_vars

\* The second result row had a cell that did not marshal: the consumer has
\* read the first row and the end of the stream, and nothing else.
C34_Witness ==
    /\ ppc = "panic_parse_value"
    /\ served = <<"row", "badcell">>
    /\ received = <<Row(1)>>
    /\ cons = "ended"

\* The error values the call has shown or is about to show to the consumer.
ErrorsShown ==
    {received[i] : i \in {j \in 1..Len(received) : received[j].kind = "error"}}
    \cup {chan[i] : i \in {j \in 1..Len(chan) : chan[j].kind = "error"}}

\* C22: no failure shown to the user depends on the password: whenever the
\* call shows an error value, the same call made with any other password (or
\* none) that fails with the same error kind and shows a value shows this
\* very value.
C22_ErrorIndependentOfPassword ==
    \A v \in ErrorsShown :
        \A pw \in {None, Some("p", 2), Some("q", 2)} :
            \A so \in StreamOutcomes, co \in ConnectOutcomes :
                LET other == [qargs EXCEPT !.password = pw]
                    r == create_client(other, target_os, so, co)
                IN  (~r.ok /\ r.err.kind = perr.kind /\ ~handle_err(r.err, other).panic)
                    => handle_err(r.err, other).value = v

\* A login with user and password was rejected and the consumer has read the
\* error value.
C22_Witness ==
    /\ perr.kind = "LoginFailed"
    /\ qargs.user.some /\ qargs.password.some
    /\ Len(received) = 1
    /\ received[1] = handle_err(perr, qargs).value
    /\ received[1].kind = "error"

(***************************************************************************)
(* SpecHandle: MssqlClient values.  `mssql connect` makes one around a new *)
(* Arc<Client>; Clone shares the Arc; the serialized form skips the client;*)
(* run_query clones the Arc and asks Arc::try_unwrap for sole ownership.   *)
(***************************************************************************)
\* Arc::try_unwrap gives the client only to the single remaining owner.
try_unwrap(count) == count = 1

\* The passwords the `mssql connect` calls are made with: the one of qargs,
\* or another one.
Passwords == {qargs.password, Some("q", 2)}

\* The args field of handle h: the calls agree on all but the password.
HandleArgs(h) == [qargs EXCEPT !.password = hpw[h]]

\* #[derive(Serialize)] with #[serde(skip)] on password: the serialized
\* form has every field but the password.
serializeWithPassword(args) ==
    [server |-> args.server, instance |-> args.instance, database |-> args.database,
     user |-> args.user, password |-> args.password, trust_cert |-> args.trust_cert,
     buffer_size |-> args.buffer_size]
serialize(args) ==
    [server |-> args.server, instance |-> args.instance, database |-> args.database,
     user |-> args.user, trust_cert |-> args.trust_cert, buffer_size |-> args.buffer_size]

\* #[derive(Deserialize)]: the skipped password gets its Default, None.
deserialize(form) ==
    [server |-> form.server, instance |-> form.instance, database |-> form.database,
     user |-> form.user, password |-> None, trust_cert |-> form.trust_cert,
     buffer_size |-> form.buffer_size]

\* #[derive(Debug)] for ConnectionArgs: `{:?}` prints every field, each
\* Option<Value> with its value and span.
DebugArgs(args) ==
    <<"ConnectionArgs", args.server, args.instance, args.database, args.user,
      args.password, args.trust_cert, args.buffer_size>>

\* MssqlClient::to_base_value: Value::string(format!("{:?}", self.args)).
to_base_value(args) == [kind |-> "string", val |-> DebugArgs(args)]

\* Connect::run: create_client, then MssqlClient::new(args, client); the
\* call is made with the args of qargs and one of the given passwords.
ConnectWith(h, passwords) ==
    /\ hpc[h] = "none"
    /\ \E pw \in passwords, so \in StreamOutcomes, co \in ConnectOutcomes :
        LET args == [qargs EXCEPT !.password = pw] IN
        IF create_client(args, target_os, so, co).ok
        THEN /\ sessions' = Append(sessions, args)
             /\ hsess' = [hsess EXCEPT ![h] = Len(sessions) + 1]
             /\ strong' = Append(strong, 1)
             /\ hpc' = [hpc EXCEPT ![h] = "idle"]
             /\ hpw' = [hpw EXCEPT ![h] = pw]
        ELSE /\ hpc' = [hpc EXCEPT ![h] = "failed"]
             /\ UNCHANGED <<sessions, hsess, strong, hpw>>
    /\ UNCHANGED <<target_os, hbase, poolVars, streamVars, marshalVars>>

\* Every `mssql connect` call repeats the arguments of qargs.
Connect(h) == ConnectWith(h, {qargs.password})

\* The host asks for the base value of the handle.
ToBaseValue(h) ==
    /\ hpc[h] \in {"idle", "refused"}
    /\ hbase' = hbase \cup {to_base_value(HandleArgs(h))}
    /\ UNCHANGED <<target_os, sessions, hsess, hpc, strong, hpw, poolVars, streamVars, marshalVars>>

\* clone_value: self.clone() clones the Arc.
CloneValue(h, h2) ==
    /\ hpc[h] \in {"idle", "refused", "unwrap"}
    /\ hpc[h2] = "none"
    /\ hsess' = [hsess EXCEPT ![h2] = hsess[h]]
    /\ hpc' = [hpc EXCEPT ![h2] = "idle"]
    /\ strong' = IF hsess[h] = 0 THEN strong
                 ELSE [strong EXCEPT ![hsess[h]] = @ + 1]
    /\ hpw' = [hpw EXCEPT ![h2] = hpw[h]]
    /\ UNCHANGED <<target_os, sessions, hbase, poolVars, streamVars, marshalVars>>

\* The value goes to the host and comes back: #[serde(skip)] leaves the
\* client and the password of the deserialized value None.
Deserialize(h, h2) ==
    /\ hpc[h] \in {"idle", "refused", "unwrap"}
    /\ hpc[h2] = "none"
    /\ hsess' = [hsess EXCEPT ![h2] = 0]
    /\ hpc' = [hpc EXCEPT ![h2] = "idle"]
    /\ hpw' = [hpw EXCEPT ![h2] = deserialize(serialize(HandleArgs(h))).password]
    /\ UNCHANGED <<target_os, sessions, strong, hbase, poolVars, streamVars, marshalVars>>

\* The value is dropped; its Arc reference goes with it.
DropValue(h) ==
    /\ hpc[h] \in {"idle", "refused"}
    /\ hpc' = [hpc EXCEPT ![h] = "dropped"]
    /\ hsess' = [hsess EXCEPT ![h] = 0]
    /\ strong' = IF hsess[h] = 0 THEN strong
                 ELSE [strong EXCEPT ![hsess[h]] = @ - 1]
    /\ hpw' = [hpw EXCEPT ![h] = None]
    /\ UNCHANGED <<target_os, sessions, hbase, poolVars, streamVars, marshalVars>>

\* run_query, up to `Arc::clone(client)`: a handle without a client returns.
RunQueryClone(h) ==
    /\ hpc[h] \in {"idle", "refused"}
    /\ IF hsess[h] = 0
       THEN /\ hpc' = [hpc EXCEPT ![h] = "no_client"]
            /\ strong' = strong
       ELSE /\ hpc' = [hpc EXCEPT ![h] = "unwrap"]
            /\ strong' = [strong EXCEPT ![hsess[h]] = @ + 1]
    /\ UNCHANGED <<target_os, sessions, hsess, hpw, hbase, poolVars, streamVars, marshalVars>>

\* run_query at `Arc::try_unwrap(client)`: Ok gives the client to run the
\* query on; Err drops the clone and returns.
RunQueryUnwrap(h) ==
    /\ hpc[h] = "unwrap"
    /\ IF try_unwrap(strong[hsess[h]])
       THEN /\ hpc' = [hpc EXCEPT ![h] = "in_flight"]
            /\ strong' = [strong EXCEPT ![hsess[h]] = 0]
       ELSE /\ hpc' = [hpc EXCEPT ![h] = "refused"]
            /\ strong' = [strong EXCEPT ![hsess[h]] = @ - 1]
    /\ UNCHANGED <<target_os, sessions, hsess, hpw, hbase, poolVars, streamVars, marshalVars>>

InitHandle ==
    /\ target_os \in TargetOs
    /\ sessions = <<>>
    /\ PoolIdle
    /\ qcall \in {call \in QueryCalls : ~call.row_buffer.some /\ ~call.buffer_size.some}
    /\ qargs = from_call(qcall)
    /\ StreamIdle
    /\ HandlesIdle
    /\ MarshalIdle

NextHandle ==
    \/ \E h \in Handles : Connect(h) \/ DropValue(h) \/ RunQueryClone(h) \/ RunQueryUnwrap(h)
    \/ \E h, h2 \in Handles : CloneValue(h, h2) \/ Deserialize(h, h2)

SpecHandle == InitHandle /\ [][NextHandle]_vars

\* The handles whose run_query is executing a query on session s.
InFlight(s) == {h \in Handles : hsess[h] = s /\ hpc[h] = "in_flight"}

TypeOKHandle ==
    /\ hsess \in [Handles -> 0..Len(sessions)]
    /\ hpc \in [Handles -> {"none", "failed", "idle", "dropped", "no_client",
                            "unwrap", "refused", "in_flight"}]
    /\ Len(strong) = Len(sessions)
    /\ hpw \in [Handles -> Passwords \cup {None}]
    /\ \A v \in hbase : v.kind = "string"
    /\ \A s \in 1..Len(strong) :
          strong[s] = Cardinality({h \in Handles : hsess[h] = s})
                      + Cardinality({h \in Handles : hsess[h] = s /\ hpc[h] = "unwrap"})

\* C3: concurrent run_query calls through handles to one connection are
\* serialized: at most one of them is executing on the session at any time,
\* and a call made while another handle to the connection is inside
\* run_query is not turned away without running its query.
C3_QueriesSerialized ==
    /\ \A s \in 1..Len(sessions) : Cardinality(InFlight(s)) <= 1
    /\ \A h, h2 \in Handles :
          (h # h2 /\ hsess[h] # 0 /\ hsess[h] = hsess[h2]
                  /\ hpc[h2] \in {"unwrap", "refused", "in_flight"})
          => hpc[h] # "refused"

\* C11: a run_query call on a handle that holds a live client gets the
\* client for itself and runs its query: it never returns at the failed
\* try_unwrap without having issued the query.
C11_RunQueryIssuesQuery ==
    \A h \in Handles : hsess[h] # 0 => hpc[h] # "refused"

(***************************************************************************)
(* SpecValue: the representations of MssqlClient values.  The `mssql       *)
(* connect` calls differ in the password only; the values are cloned, sent *)
(* to the host and back, asked for their base value, and dropped.          *)
(***************************************************************************)
ConnectAny(h) == ConnectWith(h, Passwords)

NextValue ==
    \/ \E h \in Handles : ConnectAny(h) \/ DropValue(h) \/ ToBaseValue(h)
    \/ \E h, h2 \in Handles : CloneValue(h, h2) \/ Deserialize(h, h2)

SpecValue == InitHandle /\ [][NextValue]_vars

\* The handles that exist as values.
LiveHandles == {h \in Handles : hpc[h] \notin {"none", "failed", "dropped"}}

\* C23: the password is write-only: handles that differ only in password
\* have the same serialized form, and the base values returned for them are
\* one and the same string.
C23_PasswordWriteOnly ==
    /\ \A h, h2 \in LiveHandles : serialize(HandleArgs(h)) = serialize(HandleArgs(h2))
    /\ Cardinality(hbase) <= 1

(***************************************************************************)
(* SpecMarshal: parse_value applied to every cell the driver can hand over.*)
(***************************************************************************)
InitMarshal ==
    /\ target_os \in TargetOs
    /\ sessions = <<>>
    /\ PoolIdle
    /\ qcall = CHOOSE call \in QueryCalls : TRUE
    /\ qargs = from_call(qcall)
    /\ StreamIdle
    /\ HandlesIdle
    /\ cell \in Cells
    /\ parsed = NotParsed

\* parse_value(cell)
ParseValue ==
    /\ parsed = NotParsed
    /\ parsed' = parse_value(cell)
    /\ UNCHANGED <<target_os, sessions, cell, poolVars, streamVars, handleVars>>

NextMarshal == ParseValue

SpecMarshal == InitMarshal /\ [][NextMarshal]_vars

\* C30: the marshaller is total and deterministic: the null case of every
\* variant gives the null value and no error; every non-null cell gives
\* exactly one outcome, a value or a marshalling error, which is the one
\* the match assigns to the cell whatever else the state holds.
C30_MarshalTotal ==
    parsed # NotParsed
    => /\ ~cell.some => parsed = MarshalOk(Nothing)
       /\ cell.some => \/ parsed.ok /\ parsed.err = ""
                       \/ ~parsed.ok /\ parsed.err # "" /\ parsed.value = Nothing
       /\ parsed = parse_value(cell)

\* A null Xml cell, the last arm of the match, has been marshalled.
C30_Witness ==
    /\ cell = Cell("Xml", FALSE, 0, 0)
    /\ parsed = MarshalOk(Nothing)

\* A non-null time cell has been marshalled.
TimeParsed == parsed # NotParsed /\ cell.variant = "Time" /\ cell.some

\* The duration of i * 10^(9 - s) nanoseconds.
Nanos(i, s) == MarshalOk(NuValue("duration", Dec(i, 9 - s)))

\* C31 as stated: a time cell with increments i and scale s gives the
\* duration of i * 10^(9 - s) nanoseconds, and increments 5,000,000 at
\* scale 3 give 5,000,000,000 nanoseconds, that is 5 * 10^9.
C31_TimeAsStated ==
    TimeParsed
    => /\ parsed = Nanos(cell.val, cell.scale)
       /\ (cell.val = 5000000 /\ cell.scale = 3)
          => parsed.value.val = [m |-> 5, e |-> 9]

\* C31, amended: a time cell with increments i and scale s gives the
\* duration of i * 10^(9 - s) nanoseconds: one increment at scale 7 is 100
\* nanoseconds, one at scale 0 is 10^9, and increments 5,000,000 at scale 3
\* give 5 * 10^12 nanoseconds (5,000 seconds).
C31_TimeDuration ==
    TimeParsed
    => /\ parsed = Nanos(cell.val, cell.scale)
       /\ (cell.val = 1 /\ cell.scale = 7) => parsed.value.val = [m |-> 1, e |-> 2]
       /\ (cell.val = 1 /\ cell.scale = 0) => parsed.value.val = [m |-> 1, e |-> 9]
       /\ (cell.val = 5000000 /\ cell.scale = 3) => parsed.value.val = [m |-> 5, e |-> 12]

\* The cell of the example has been marshalled.
C31_Witness ==
    /\ TimeParsed
    /\ cell.val = 5000000 /\ cell.scale = 3
    /\ parsed.ok /\ parsed.value.kind = "duration"

\* The date and datetime variants, and whether the driver decodes the cell
\* to a calendar timestamp.
DateVariants == {"Date", "DateTime", "DateTime2", "DateTimeOffset", "SmallDateTime"}
Decodes(data) == from_sql(data).ok /\ from_sql(data).some

\* C32: a non-null date or datetime cell that cannot be decoded to a
\* calendar timestamp gives a marshalling error, never the null value; one
\* that decodes gives a date value whose UTC offset is zero.
C32_DateErrorNotNull ==
    (parsed # NotParsed /\ cell.some /\ cell.variant \in DateVariants)
    => /\ parsed # MarshalOk(Nothing)
       /\ ~Decodes(cell) => ~parsed.ok /\ parsed.err = "Failed to parse datetime"
       /\ Decodes(cell) => /\ parsed.ok
                            /\ parsed.value.kind = "date"
                            /\ parsed.value.offset = 0

\* A non-null cell that NaiveDateTime::from_sql refuses has been marshalled
\* to the error.
C32_Witness ==
    /\ cell.some /\ cell.variant = "DateTimeOffset"
    /\ ~parsed.ok /\ parsed.err = "Failed to parse datetime"

RECURSIVE Pow10(_)
Pow10(n) == IF n = 0 THEN 1 ELSE 10 * Pow10(n - 1)

\* C33: a non-null decimal cell with unscaled value v and scale s gives the
\* number v / 10^s: the number times 10^s is v, so it is v itself only when
\* s = 0 or v = 0.
C33_DecimalScaled ==
    (parsed # NotParsed /\ cell.some /\ cell.variant = "Numeric")
    => /\ parsed.ok
       /\ parsed.value.kind = "float"
       /\ parsed.value.val * Pow10(cell.scale) = cell.val

(***************************************************************************)
(* The producer task under a fair scheduler: async_std runs a spawned task *)
(* whenever it can make progress.                                          *)
(***************************************************************************)
ProducerStep == ProducerConnect \/ HandleErr \/ SimpleQuery \/ NextRow \/ Send

SpecStreamFair == SpecStream /\ WF_vars(ProducerStep)

\* Once the iterator has been dropped the producer task terminates (by
\* returning or by panicking); it does not stay blocked in send.
ProducerTerminatesAfterDrop == (cons = "dropped") ~> (ppc \in Terminated \cup {"none"})

\* C40: reporting a connection error never panics.  For every
\* ConnectionError that create_client hands to handle_err, and the
\* arguments of the call that produced it, handle_err builds an error
\* value; the producer task never ends by a panic inside handle_err,
\* LoginFailed under a password given without a user included.
C40_HandleErrNeverPanics ==
    /\ ppc = "handle_err" => ~handle_err(perr, qargs).panic
    /\ ppc # "panic_handle_err"

\* recv_blocking inside TableIterator::next has nothing to return: the
\* queue is empty and the sender is still held.
NextBlocked == cons = "running" /\ chan = <<>> /\ sender_alive

====
